---- MODULE Spec2Model ----
(***************************************************************************)
(* Street cross-section validation backend (verkehrsplanung_backend).      *)
(*                                                                         *)
(* The repository holds four revisions of the server:                      *)
(*   "tagged"  src/index.js:1-289      violations are {field, message}     *)
(*   "stub"    src/index.js:291-327    the endpoint only acknowledges      *)
(*   "plain"   src/index.js:329-589    violations are plain strings        *)
(*   "legacy"  src/unnamed/part_000    English field names, fallbacks      *)
(*                                                                         *)
(* Widths are metres in the source; here they are exact integers in        *)
(* hundredths of a metre (1.85 m = 185), so sums and comparisons are the   *)
(* decimal ones.  Lane counts are plain integers.  A quotient such as the  *)
(* approximate lane width is kept as numerator and denominator.            *)
(***************************************************************************)
EXTENDS Integers, Sequences, FiniteSets, TLC

VARIABLES ver, cat, srv, calls

vars == <<ver, cat, srv, calls>>

\* ------------------------------------------------------------------------
\* Bounds of the model
\* ------------------------------------------------------------------------

\* lane counts submitted are 0..MaxLanes
MaxLanes == 3

Versions == {"tagged", "stub", "plain", "legacy"}

\* the revisions that define validateDesignWithStandards
Validating == {"tagged", "plain", "legacy"}

\* the validation calls that may be in flight together
Procs == {"p", "q"}

\* ------------------------------------------------------------------------
\* Raw JSON values and the two coercions
\* ------------------------------------------------------------------------

Undef == [k |-> "undefined", b |-> FALSE, n |-> 0, s |-> ""]
Null == [k |-> "null", b |-> FALSE, n |-> 0, s |-> ""]
Bool(x) == [k |-> "boolean", b |-> x, n |-> 0, s |-> ""]
Num(x) == [k |-> "number", b |-> FALSE, n |-> x, s |-> ""]
Str(x) == [k |-> "string", b |-> FALSE, n |-> 0, s |-> x]

\* String.prototype.trim on the strings the model submits
Trim(s) ==
  CASE s = " ja " -> "ja"
    [] s = " 10 " -> "10"
    [] OTHER -> s

\* String.prototype.toLowerCase on the strings the model submits
ToLowerCase(s) ==
  CASE s = "Ja" -> "ja"
    [] s = "ON" -> "on"
    [] s = "Schutzstreifen" -> "schutzstreifen"
    [] s = "Radfahrstreifen" -> "radfahrstreifen"
    [] s = "Beidseitig" -> "beidseitig"
    [] s = "Parallel" -> "parallel"
    [] s = "QUER" -> "quer"
    [] OTHER -> s

\* Number(value): [nan, v]; numeric strings parse (surrounding blanks are
\* dropped, the empty string is 0), every other string is NaN
StringToNumber(s) ==
  LET t == Trim(s) IN
  CASE t = "" -> [nan |-> FALSE, v |-> 0]
    [] t = "10" -> [nan |-> FALSE, v |-> 1000]
    [] t = "2" -> [nan |-> FALSE, v |-> 200]
    [] t = "1.5" -> [nan |-> FALSE, v |-> 150]
    [] OTHER -> [nan |-> TRUE, v |-> 0]

Number(value) ==
  CASE value.k = "undefined" -> [nan |-> TRUE, v |-> 0]
    [] value.k = "null" -> [nan |-> FALSE, v |-> 0]
    [] value.k = "boolean" -> [nan |-> FALSE, v |-> IF value.b THEN 1 ELSE 0]
    [] value.k = "number" -> [nan |-> FALSE, v |-> value.n]
    [] OTHER -> StringToNumber(value.s)

toNumber(value) ==
  LET n == Number(value) IN IF n.nan THEN 0 ELSE n.v

toBool(value) ==
  IF value.k = "boolean" /\ value.b THEN TRUE
  ELSE IF value.k = "string"
       THEN ToLowerCase(Trim(value.s)) \in {"ja", "yes", "true", "on", "1"}
       ELSE FALSE

\* a ?? b
Coalesce(a, b) == IF a.k \in {"undefined", "null"} THEN b ELSE a

\* (value ?? "").toLowerCase(): a string, or a TypeError when the value is a
\* number or a boolean, which have no toLowerCase method
LowerOrThrow(value) ==
  LET x == Coalesce(value, Str("")) IN
  IF x.k = "string" THEN [threw |-> FALSE, s |-> ToLowerCase(x.s)]
  ELSE [threw |-> TRUE, s |-> ""]

\* ------------------------------------------------------------------------
\* Rule catalog
\* ------------------------------------------------------------------------

BASE_RULES ==
  [sidewalk_min_m |-> 150, sidewalk_target_m |-> 180, lane_min_m |-> 275,
   lane_regular_m |-> 325, cycle_min_m |-> 150, parking_parallel_min_m |-> 200,
   parking_schraeg_min_m |-> 250, parking_quer_min_m |-> 500]

RAST_RULES ==
  [sidewalk_min_m |-> 180, lane_min_m |-> 275, lane_regular_m |-> 325,
   parking_parallel_min_m |-> 200, parking_schraeg_min_m |-> 250,
   parking_quer_min_m |-> 500]

ERA_RULES ==
  [cycle_schutz_min_m |-> 150, cycle_radfahr_min_m |-> 185,
   cycle_baulich_min_m |-> 200]

EFA_RULES == [sidewalk_min_m |-> 180, sidewalk_target_m |-> 250]

STVO_RULES == [lane_min_m |-> 275, lane_regular_m |-> 325]

\* the module-level tables as they stand after the file is loaded
Catalog ==
  [BASE_RULES |-> BASE_RULES, RAST_RULES |-> RAST_RULES, ERA_RULES |-> ERA_RULES,
   EFA_RULES |-> EFA_RULES, STVO_RULES |-> STVO_RULES]

\* { ...a, ...b }
Spread(a, b) ==
  [key \in (DOMAIN a) \cup (DOMAIN b) |-> IF key \in DOMAIN b THEN b[key] ELSE a[key]]

Max(a, b) == IF a >= b THEN a ELSE b

StandardSelections ==
  [applyRast : BOOLEAN, applyEra : BOOLEAN, applyEfa : BOOLEAN, applyStvo : BOOLEAN]

\* ------------------------------------------------------------------------
\* buildRules: a rule-table merge is carried as [rules, cat], the table under
\* construction and the module-level catalog the call leaves behind
\* ------------------------------------------------------------------------

\* Object.assign(BASE_RULES, table): the overlay written into the shared table
OverlayInPlace(m, table) ==
  [rules |-> Spread(m.rules, table),
   cat |-> [m.cat EXCEPT !.BASE_RULES = Spread(m.cat.BASE_RULES, table)]]

\* rules = { ...rules, ...table }: a new object, the catalog is only read
Overlay(m, table) == [rules |-> Spread(m.rules, table), cat |-> m.cat]

\* the regulatory lane widths with the two keys crossed
StvoMergeCrossed(m) ==
  Overlay(m, [lane_min_m |-> Max(m.rules.lane_min_m, m.cat.STVO_RULES.lane_min_m),
              lane_regular_m |-> m.cat.STVO_RULES.lane_min_m])

\* lane_min_m and lane_regular_m: Math.max of the current and the StVO value
StvoMerge(m) ==
  Overlay(m, [lane_min_m |-> Max(m.rules.lane_min_m, m.cat.STVO_RULES.lane_min_m),
              lane_regular_m |->
                Max(m.rules.lane_regular_m, m.cat.STVO_RULES.lane_regular_m)])

\* the fallback cycle keys taken from cycle_min_m without the floors
CycleKeysNoFloor(v, m, applyEra) ==
  IF applyEra
  THEN Overlay(m, [cycle_schutz_min_m |-> m.cat.ERA_RULES.cycle_schutz_min_m,
                   cycle_radfahr_min_m |-> m.cat.ERA_RULES.cycle_radfahr_min_m,
                   cycle_baulich_min_m |-> m.cat.ERA_RULES.cycle_baulich_min_m])
  ELSE Overlay(m, [cycle_schutz_min_m |-> m.rules.cycle_min_m,
                   cycle_radfahr_min_m |-> m.rules.cycle_min_m,
                   cycle_baulich_min_m |-> m.rules.cycle_min_m])

\* the three cycle keys: from ERA_RULES, or the fallback of the revision
CycleKeys(v, m, applyEra) ==
  IF applyEra
  THEN Overlay(m, [cycle_schutz_min_m |-> m.cat.ERA_RULES.cycle_schutz_min_m,
                   cycle_radfahr_min_m |-> m.cat.ERA_RULES.cycle_radfahr_min_m,
                   cycle_baulich_min_m |-> m.cat.ERA_RULES.cycle_baulich_min_m])
  ELSE IF v = "legacy"
       THEN Overlay(m, [cycle_schutz_min_m |-> m.rules.cycle_min_m,
                        cycle_radfahr_min_m |-> Max(m.rules.cycle_min_m, 180),
                        cycle_baulich_min_m |-> Max(m.rules.cycle_min_m, 200)])
       ELSE Overlay(m, [cycle_schutz_min_m |-> 150,
                        cycle_radfahr_min_m |-> 185,
                        cycle_baulich_min_m |-> 200])

\* buildRules(standards), run against the catalog c: [rules, cat]
buildRules(v, standards, c) ==
  LET m0 == Overlay([rules |-> << >>, cat |-> c], c.BASE_RULES)
      m1 == IF standards.applyRast THEN Overlay(m0, m0.cat.RAST_RULES) ELSE m0
      m2 == IF standards.applyEfa THEN Overlay(m1, m1.cat.EFA_RULES) ELSE m1
      m3 == IF standards.applyStvo THEN StvoMerge(m2) ELSE m2
  IN CycleKeys(v, m3, standards.applyEra)

\* ------------------------------------------------------------------------
\* validateDesignWithStandards
\* ------------------------------------------------------------------------

\* A request body.  Each revision reads its own field names (gesamtbreite,
\* fahrstreifen, ... in index.js; totalWidthM ?? total_width_m, ... in
\* part_000); the body is written here with one raw value per logical field,
\* under the names of the local the value is read into.
ReadInputs(data) ==
  LET ct == LowerOrThrow(data.cycleType)
      cs == LowerOrThrow(data.cycleSides)
      pt == LowerOrThrow(data.parkingType)
  IN [threw |-> ct.threw \/ cs.threw \/ pt.threw,
      totalWidthM |-> toNumber(data.totalWidthM),
      sidewalkLeftM |-> toNumber(data.sidewalkLeftM),
      sidewalkRightM |-> toNumber(data.sidewalkRightM),
      lanesCount |-> toNumber(data.lanesCount),
      busTraffic |-> toBool(data.busTraffic),
      cycleNeeded |-> toBool(data.cycleNeeded),
      cycleType |-> ct.s,
      cycleSides |-> cs.s,
      parkingNeeded |-> toBool(data.parkingNeeded),
      parkingType |-> pt.s]

\* one entry of the errors array: what it reports and the figures its message
\* is rendered from; field is the tag of the tagged revision, "" elsewhere
Violation(v, field, kind, x, y) ==
  [field |-> IF v = "tagged" THEN field ELSE "", kind |-> kind, x |-> x, y |-> y]

\* errors.push(e) under a condition
PushIf(errors, cond, e) == IF cond THEN Append(errors, e) ELSE errors

\* the mandatory-field block
MandatoryErrors(v, g) ==
  LET e1 == PushIf(<< >>, g.totalWidthM = 0,
                   Violation(v, "gesamtbreite", "missing_total", 0, 0))
      e2 == PushIf(e1, g.lanesCount = 0,
                   Violation(v, "fahrstreifen", "missing_lanes", 0, 0))
      e3 == PushIf(e2, v = "tagged" /\ g.sidewalkLeftM = 0,
                   Violation(v, "gehwegLinks", "missing_left", 0, 0))
  IN PushIf(e3, v = "tagged" /\ g.sidewalkRightM = 0,
            Violation(v, "gehwegRechts", "missing_right", 0, 0))

\* the sidewalk comparison with <= in place of <
SidewalkBelowOrEqual(v, w, rules) ==
  IF v = "legacy" THEN w # 0 /\ w <= rules.sidewalk_min_m
  ELSE w <= rules.sidewalk_min_m

\* sidewalk check of one side: part_000 skips a width of 0
SidewalkBelow(v, w, rules) ==
  IF v = "legacy" THEN w # 0 /\ w < rules.sidewalk_min_m
  ELSE w < rules.sidewalk_min_m

\* sidewalkTotalM: part_000 puts the rule minimum in place of a width of 0
SidewalkTotal(v, g, rules) ==
  IF v = "legacy"
  THEN (IF g.sidewalkLeftM # 0 THEN g.sidewalkLeftM ELSE rules.sidewalk_min_m)
       + (IF g.sidewalkRightM # 0 THEN g.sidewalkRightM ELSE rules.sidewalk_min_m)
  ELSE g.sidewalkLeftM + g.sidewalkRightM

\* the per-side width with the marked and protected keys exchanged
CycleWidthPerSideSwapped(g, rules) ==
  IF ~g.cycleNeeded THEN 0
  ELSE IF g.cycleType = "schutzstreifen" THEN rules.cycle_radfahr_min_m
  ELSE IF g.cycleType = "radfahrstreifen" THEN rules.cycle_schutz_min_m
  ELSE rules.cycle_baulich_min_m

CycleWidthPerSide(g, rules) ==
  IF ~g.cycleNeeded THEN 0
  ELSE IF g.cycleType = "schutzstreifen" THEN rules.cycle_schutz_min_m
  ELSE IF g.cycleType = "radfahrstreifen" THEN rules.cycle_radfahr_min_m
  ELSE rules.cycle_baulich_min_m

CycleSidesCount(g) ==
  IF g.cycleNeeded THEN (IF g.cycleSides = "beidseitig" THEN 2 ELSE 1) ELSE 0

CycleTotal(g, rules) == CycleWidthPerSide(g, rules) * CycleSidesCount(g)

\* parkingM: part_000 takes the parallel width for an unrecognized type
ParkingWidth(v, g, rules) ==
  IF ~g.parkingNeeded THEN 0
  ELSE IF g.parkingType = "parallel" THEN rules.parking_parallel_min_m
  ELSE IF g.parkingType = "schraeg" THEN rules.parking_schraeg_min_m
  ELSE IF g.parkingType = "quer" THEN rules.parking_quer_min_m
  ELSE IF v = "legacy" THEN rules.parking_parallel_min_m
  ELSE 0

\* every derived quantity; the approximate lane width is num / den
Derive(v, g, rules) ==
  LET sw == SidewalkTotal(v, g, rules)
      cy == CycleTotal(g, rules)
      pk == ParkingWidth(v, g, rules)
      lm == g.lanesCount * rules.lane_min_m
  IN [sidewalkTotalM |-> sw, cycleTotalM |-> cy, parkingM |-> pk, lanesMinM |-> lm,
      lanesRegularM |-> g.lanesCount * rules.lane_regular_m,
      requiredMin |-> sw + cy + pk + lm,
      approxNum |-> g.totalWidthM - (sw + cy + pk),
      approxDen |-> IF v = "legacy" /\ g.lanesCount = 0 THEN 1 ELSE g.lanesCount]

\* num / den < bound, for den > 0
QuotientBelow(num, den, bound) == num < bound * den

\* approxLaneWidth < lane_min_m: part_000 skips a quotient of 0
LaneBelowMin(v, d, rules) ==
  IF v = "legacy"
  THEN d.approxNum # 0 /\ QuotientBelow(d.approxNum, d.approxDen, rules.lane_min_m)
  ELSE QuotientBelow(d.approxNum, d.approxDen, rules.lane_min_m)

\* part_000 only: the else-branch note, taken against lanesRegularWidthM
LaneBelowRegularNote(v, d, rules) ==
  /\ v = "legacy"
  /\ ~LaneBelowMin(v, d, rules)
  /\ d.approxNum # 0
  /\ QuotientBelow(d.approxNum, d.approxDen, d.lanesRegularM)

BusBelowRegular(v, g, d, rules) ==
  /\ g.busTraffic
  /\ v = "legacy" => d.approxNum # 0
  /\ QuotientBelow(d.approxNum, d.approxDen, rules.lane_regular_m)

\* the checks after the mandatory-field block, in the order of the source
CheckErrors(v, g, d, rules) ==
  LET e1 == PushIf(<< >>, SidewalkBelow(v, g.sidewalkLeftM, rules),
                   Violation(v, "gehwegLinks", "sidewalk_left",
                             g.sidewalkLeftM, rules.sidewalk_min_m))
      e2 == PushIf(e1, SidewalkBelow(v, g.sidewalkRightM, rules),
                   Violation(v, "gehwegRechts", "sidewalk_right",
                             g.sidewalkRightM, rules.sidewalk_min_m))
      e3 == PushIf(e2, d.requiredMin > g.totalWidthM,
                   Violation(v, "gesamtbreite", "required_min",
                             d.requiredMin, g.totalWidthM))
      e4 == PushIf(e3, LaneBelowMin(v, d, rules),
                   Violation(v, "fahrstreifen", "lane_min",
                             d.approxNum, d.approxDen))
      e5 == PushIf(e4, LaneBelowRegularNote(v, d, rules),
                   Violation(v, "fahrstreifen", "lane_regular_note",
                             d.approxNum, d.approxDen))
  IN PushIf(e5, BusBelowRegular(v, g, d, rules),
            Violation(v, "fahrstreifen", "bus", rules.lane_regular_m, 0))

\* ok with the advisory entries (bus, regular-width note) not counted
OkIgnoringAdvisory(errors) ==
  \A i \in 1..Len(errors) : errors[i].kind \in {"bus", "lane_regular_note"}

\* ok: errors.length === 0
Ok(errors) == Len(errors) = 0

NoInputs ==
  [threw |-> FALSE, totalWidthM |-> 0, sidewalkLeftM |-> 0, sidewalkRightM |-> 0,
   lanesCount |-> 0, busTraffic |-> FALSE, cycleNeeded |-> FALSE, cycleType |-> "",
   cycleSides |-> "", parkingNeeded |-> FALSE, parkingType |-> ""]

NoDerived ==
  [sidewalkTotalM |-> 0, cycleTotalM |-> 0, parkingM |-> 0, lanesMinM |-> 0,
   lanesRegularM |-> 0, requiredMin |-> 0, approxNum |-> 0, approxDen |-> 1]

NoRules == [none |-> 0]

NoStandards ==
  [applyRast |-> FALSE, applyEra |-> FALSE, applyEfa |-> FALSE, applyStvo |-> FALSE]

\* summary: keys are the keys of the object, g and d the values it carries
EmptySummary == [keys |-> {}, g |-> NoInputs, d |-> NoDerived]

\* the summary returned with the mandatory-field violations
ShortSummary(v, g) ==
  IF v = "legacy"
  THEN [keys |-> {"totalWidthM", "sidewalkLeftM", "sidewalkRightM", "lanesCount"},
        g |-> [NoInputs EXCEPT !.totalWidthM = g.totalWidthM,
                               !.sidewalkLeftM = g.sidewalkLeftM,
                               !.sidewalkRightM = g.sidewalkRightM,
                               !.lanesCount = g.lanesCount],
        d |-> NoDerived]
  ELSE EmptySummary

FullSummary(v, g, d) ==
  [keys |-> IF v = "legacy" THEN {"input", "computed", "rules", "standardsApplied"}
            ELSE {"sidewalks", "cycle", "parking", "lanes", "requiredMin",
                  "totalWidthM"},
   g |-> g, d |-> d]

\* what a call that threw leaves: no value is returned
Thrown ==
  [threw |-> TRUE, short |-> FALSE, ok |-> FALSE, errors |-> << >>,
   summary |-> EmptySummary, rules |-> NoRules, standardsApplied |-> NoStandards]

\* validateDesignWithStandards after its call of buildRules returned RULES
ValidateWith(v, data, standards, RULES) ==
  LET g == ReadInputs(data)
      mand == MandatoryErrors(v, g)
      d == Derive(v, g, RULES)
      errors == CheckErrors(v, g, d, RULES)
  IN IF g.threw THEN Thrown
     ELSE IF Len(mand) > 0
     THEN [threw |-> FALSE, short |-> TRUE, ok |-> FALSE, errors |-> mand,
           summary |-> ShortSummary(v, g), rules |-> NoRules,
           standardsApplied |-> NoStandards]
     ELSE [threw |-> FALSE, short |-> FALSE, ok |-> Ok(errors), errors |-> errors,
           summary |-> FullSummary(v, g, d), rules |-> RULES,
           standardsApplied |-> standards]

\* validateDesignWithStandards(data, standards) against the catalog c:
\* [result, cat]
validateDesignWithStandards(v, data, standards, c) ==
  LET m == buildRules(v, standards, c)
  IN [result |-> ValidateWith(v, data, standards, m.rules), cat |-> m.cat]

\* ------------------------------------------------------------------------
\* POST /api/verkehrsplanung
\* ------------------------------------------------------------------------

ReadStandards(data) ==
  [applyRast |-> toBool(data.rast), applyEra |-> toBool(data.era),
   applyEfa |-> toBool(data.efa), applyStvo |-> toBool(data.stvo)]

NoResult ==
  [threw |-> FALSE, short |-> FALSE, ok |-> FALSE, errors |-> << >>,
   summary |-> EmptySummary, rules |-> NoRules, standardsApplied |-> NoStandards]

\* res.status(code).json(...): keys are the keys of the JSON body
Response(code, status, keys, errors, summary) ==
  [code |-> code, status |-> status, keys |-> keys, errors |-> errors,
   summary |-> summary]

\* the response built from a validation result; an exception leaving the
\* handler is answered by the framework with status 500
Respond(v, result) ==
  LET extra == IF v = "legacy" THEN {"standardsApplied"} ELSE {} IN
  IF result.threw THEN Response(500, "", {}, << >>, EmptySummary)
  ELSE IF ~result.ok
  THEN Response(400, "error", {"status", "message", "errors", "summary"} \cup extra,
                result.errors, result.summary)
  ELSE Response(200, "ok", {"status", "message", "summary"} \cup extra,
                << >>, result.summary)

\* the route handler of revision v: [response, ncalls, result, cat]
Handler(v, data, c) ==
  LET standards == ReadStandards(data)
      call == validateDesignWithStandards(v, data, standards, c)
  IN IF v = "stub"
     THEN [response |-> Response(200, "success", {"status", "message"}, << >>,
                                 EmptySummary),
           ncalls |-> 0, result |-> NoResult, cat |-> c]
     ELSE IF v = "legacy" /\ standards = NoStandards
     THEN [response |-> Response(200, "ok",
                                 {"status", "message", "standardsApplied"}, << >>,
                                 EmptySummary),
           ncalls |-> 0, result |-> NoResult, cat |-> c]
     ELSE [response |-> Respond(v, call.result), ncalls |-> 1,
           result |-> call.result, cat |-> call.cat]

\* ------------------------------------------------------------------------
\* Submissions
\* ------------------------------------------------------------------------

TotalInputs == {Undef, Num(400), Str(" 10 ")}

LeftInputs == {Undef, Num(150), Num(200)}

RightInputs == {Undef, Str("1.5"), Num(200)}

LaneInputs == {Num(n) : n \in 0..MaxLanes}

BusInputs == {Undef, Str("Ja")}

FlagInputs == {Undef, Str("ON")}

Facility(cn, ct, cs, pn, pt) ==
  [cycleNeeded |-> cn, cycleType |-> ct, cycleSides |-> cs,
   parkingNeeded |-> pn, parkingType |-> pt]

FacilityInputs ==
  {Facility(Undef, Undef, Undef, Undef, Undef),
   Facility(Str(" ja "), Str("Schutzstreifen"), Undef, Undef, Undef),
   Facility(Bool(TRUE), Str("radfahrstreifen"), Str("Beidseitig"), Undef, Undef),
   Facility(Bool(TRUE), Null, Str("einseitig"), Undef, Undef),
   Facility(Undef, Str("radfahrstreifen"), Str("beidseitig"), Undef, Undef),
   Facility(Bool(TRUE), Num(5), Undef, Undef, Undef),
   Facility(Undef, Undef, Undef, Bool(TRUE), Str("Parallel")),
   Facility(Undef, Undef, Undef, Bool(TRUE), Str("schraeg")),
   Facility(Undef, Undef, Undef, Str("Ja"), Str("QUER")),
   Facility(Undef, Undef, Undef, Bool(TRUE), Undef),
   Facility(Undef, Undef, Undef, Str("nein"), Str("quer")),
   Facility(Undef, Undef, Undef, Undef, Bool(TRUE)),
   Facility(Bool(TRUE), Str("Radfahrstreifen"), Str("beidseitig"),
            Bool(TRUE), Str("parallel"))}

Body(t, l, r, n, b, f, sr, se, sf, sv) ==
  [totalWidthM |-> t, sidewalkLeftM |-> l, sidewalkRightM |-> r, lanesCount |-> n,
   busTraffic |-> b, cycleNeeded |-> f.cycleNeeded, cycleType |-> f.cycleType,
   cycleSides |-> f.cycleSides, parkingNeeded |-> f.parkingNeeded,
   parkingType |-> f.parkingType, rast |-> sr, era |-> se, efa |-> sf, stvo |-> sv]

Bodies ==
  {Body(t, l, r, n, b, f, sr, se, sf, sv) :
     t \in TotalInputs, l \in LeftInputs, r \in RightInputs, n \in LaneInputs,
     b \in BusInputs, f \in FacilityInputs,
     sr \in FlagInputs, se \in FlagInputs, sf \in FlagInputs, sv \in FlagInputs}

BlankBody ==
  Body(Undef, Undef, Undef, Undef, Undef,
       Facility(Undef, Undef, Undef, Undef, Undef), Undef, Undef, Undef, Undef)

\* the bodies of the calls that run side by side
CallBodies ==
  {Body(Str(" 10 "), Num(200), Num(200), Num(n), Undef,
        Facility(Undef, Undef, Undef, Undef, Undef), Undef, Undef, Undef, Undef) :
     n \in 2..3}

\* ------------------------------------------------------------------------
\* State.  ver: the revision that is deployed.  cat: the module-level rule
\* tables.  srv: the endpoint between two submissions.  calls: the
\* validation calls in flight, each with its own locals.
\* ------------------------------------------------------------------------

SrvIdle ==
  [pc |-> "idle", data |-> BlankBody,
   response |-> Response(0, "", {}, << >>, EmptySummary),
   result |-> NoResult, ncalls |-> 0]

CallIdle ==
  [pc |-> "idle", data |-> BlankBody, standards |-> NoStandards,
   RULES |-> NoRules, result |-> NoResult]

Init ==
  /\ ver \in Versions
  /\ cat = Catalog
  /\ srv = SrvIdle
  /\ calls = [p \in Procs |-> CallIdle]

\* a submission arrives and the route handler runs to its response
Submit ==
  /\ srv.pc = "idle"
  /\ \E data \in Bodies :
       LET h == Handler(ver, data, cat) IN
       /\ srv' = [pc |-> "done", data |-> data, response |-> h.response,
                  result |-> h.result, ncalls |-> h.ncalls]
       /\ cat' = h.cat
  /\ UNCHANGED <<ver, calls>>

\* the response is sent; the endpoint waits for the next submission
Finish ==
  /\ srv.pc = "done"
  /\ srv' = SrvIdle
  /\ UNCHANGED <<ver, cat, calls>>

Next == Submit \/ Finish

Spec == Init /\ [][Next]_vars

\* ------------------------------------------------------------------------
\* Validation calls side by side: each call is cut after its call of
\* buildRules, so that the steps of two calls interleave in every order
\* ------------------------------------------------------------------------

InitCalls ==
  /\ ver \in Validating
  /\ cat = Catalog
  /\ srv = SrvIdle
  /\ calls = [p \in Procs |-> CallIdle]

\* validateDesignWithStandards is entered and buildRules returns into RULES
Enter(p) ==
  /\ calls[p].pc = "idle"
  /\ \E data \in CallBodies, standards \in StandardSelections :
       LET m == buildRules(ver, standards, cat) IN
       /\ calls' = [calls EXCEPT ![p] = [pc |-> "built", data |-> data,
                                         standards |-> standards,
                                         RULES |-> m.rules, result |-> NoResult]]
       /\ cat' = m.cat
  /\ UNCHANGED <<ver, srv>>

\* the rest of the call, up to its return value
Check(p) ==
  /\ calls[p].pc = "built"
  /\ calls' = [calls EXCEPT ![p].pc = "returned",
                            ![p].result = ValidateWith(ver, calls[p].data,
                                                       calls[p].standards,
                                                       calls[p].RULES)]
  /\ UNCHANGED <<ver, cat, srv>>

\* the caller drops the result
Leave(p) ==
  /\ calls[p].pc = "returned"
  /\ calls' = [calls EXCEPT ![p] = CallIdle]
  /\ UNCHANGED <<ver, cat, srv>>

NextCalls == \E p \in Procs : Enter(p) \/ Check(p) \/ Leave(p)

SpecCalls == InitCalls /\ [][NextCalls]_vars

\* ------------------------------------------------------------------------
\* Properties of one submission (Spec)
\* ------------------------------------------------------------------------

\* the submission has been handled by one call that returned a value
Returned == srv.pc = "done" /\ srv.ncalls = 1 /\ ~srv.result.threw

\* the typed inputs, the effective rules and the derived widths of the
\* submission that has been handled
InG == ReadInputs(srv.data)
InRules == buildRules(ver, ReadStandards(srv.data), Catalog).rules
InD == Derive(ver, InG, InRules)

Kinds(errors) == [i \in 1..Len(errors) |-> errors[i].kind]

\* the entries of errors whose kind is in K, in their order
RECURSIVE Only(_, _)
Only(errors, K) ==
  IF errors = << >> THEN << >>
  ELSE IF Head(errors) \in K THEN <<Head(errors)>> \o Only(Tail(errors), K)
  ELSE Only(Tail(errors), K)

ApproxBelow(bound) == QuotientBelow(InD.approxNum, InD.approxDen, bound)

\* C1: a total width or lane count that coerces to zero yields ok=false, a
\* violation list of exactly the missing-field violations of total width
\* and lane count, one per zero field, and an empty summary.
C1_ZeroFieldsShortCircuit ==
  (Returned /\ (InG.totalWidthM = 0 \/ InG.lanesCount = 0)) =>
    /\ ~srv.result.ok
    /\ Kinds(srv.result.errors) =
         (IF InG.totalWidthM = 0 THEN <<"missing_total">> ELSE << >>)
         \o (IF InG.lanesCount = 0 THEN <<"missing_lanes">> ELSE << >>)
    /\ srv.result.summary.keys = {}

\* the premise of C2: a valid geometry whose aggregate required width fits
\* the total width and whose approximate lane width reaches lane_min
C2_Fits ==
  /\ Returned
  /\ InG.totalWidthM > 0 /\ InG.lanesCount >= 1
  /\ InG.sidewalkLeftM >= 0 /\ InG.sidewalkRightM >= 0
  /\ InD.requiredMin <= InG.totalWidthM
  /\ ~ApproxBelow(InRules.lane_min_m)

C3_NeverThrows ==
  (srv.pc = "done" /\ srv.ncalls = 1) => ~srv.result.threw

\* C4: in every result returned, ok holds exactly when the violation list is
\* empty, and a result of the mandatory-field short-circuit has ok=false.
C4_OkIffNoViolations ==
  Returned =>
    /\ srv.result.ok <=> (Len(srv.result.errors) = 0)
    /\ srv.result.short => ~srv.result.ok

C4_Witness ==
  /\ Returned
  /\ ~srv.result.short
  /\ ~srv.result.ok
  /\ Kinds(srv.result.errors) = <<"bus">>

\* the violations C5 asks for, in its order, given the conditions that hold
C5_Expected ==
  (IF InG.sidewalkLeftM < InRules.sidewalk_min_m THEN <<"sidewalk_left">> ELSE << >>)
  \o (IF InG.sidewalkRightM < InRules.sidewalk_min_m
      THEN <<"sidewalk_right">> ELSE << >>)
  \o (IF InD.requiredMin > InG.totalWidthM THEN <<"required_min">> ELSE << >>)
  \o (IF ApproxBelow(InRules.lane_min_m) THEN <<"lane_min">> ELSE << >>)
  \o (IF InG.busTraffic /\ ApproxBelow(InRules.lane_regular_m)
      THEN <<"bus">> ELSE << >>)

\* C5: past the mandatory-field check every one of the five checks whose
\* condition holds has its violation in the list, whatever else failed, and
\* these violations stand in the fixed order.
C5_ExhaustiveInOrder ==
  (Returned /\ ~srv.result.short) =>
    Only(Kinds(srv.result.errors),
         {"sidewalk_left", "sidewalk_right", "required_min", "lane_min", "bus"})
      = C5_Expected

\* C9: every submission is handled by exactly one validation call, and it is
\* rejected exactly when the result has ok=false, accepted exactly when it
\* has ok=true, with the violation list and summary of the result.
C9_OneCallDecidesResponse ==
  (srv.pc = "done" /\ ~srv.result.threw) =>
    /\ srv.ncalls = 1
    /\ (srv.response.status = "error") <=> ~srv.result.ok
    /\ (srv.response.status = "ok") <=> srv.result.ok
    /\ srv.response.errors = srv.result.errors
    /\ srv.response.summary = srv.result.summary

\* ------------------------------------------------------------------------
\* Properties of calls side by side (SpecCalls)
\* ------------------------------------------------------------------------

\* the call p has its rule table
Built(p) == calls[p].pc # "idle"

\* C6: with the regulatory lane standard selected, lane_min and lane_regular
\* are at least the baseline 2.75 and 3.25 and at least what the same
\* selection without that standard yields.
C6_StvoNeverShrinksLanes ==
  \A p \in Procs :
    (Built(p) /\ calls[p].standards.applyStvo) =>
      /\ calls[p].RULES.lane_min_m >= 275
      /\ calls[p].RULES.lane_regular_m >= 325
      /\ \A q \in Procs :
           (Built(q) /\ calls[q].standards
                          = [calls[p].standards EXCEPT !.applyStvo = FALSE]) =>
             /\ calls[p].RULES.lane_min_m >= calls[q].RULES.lane_min_m
             /\ calls[p].RULES.lane_regular_m >= calls[q].RULES.lane_regular_m

C6_Witness ==
  /\ Built("p") /\ Built("q")
  /\ calls["p"].standards.applyStvo /\ calls["p"].standards.applyRast
  /\ calls["q"].standards = [calls["p"].standards EXCEPT !.applyStvo = FALSE]

\* C7: two calls of buildRules with the same selection return tables with
\* the same keys and the same value for every key, whatever calls with other
\* selections ran before or between them.
C7_SameSelectionSameTable ==
  \A p, q \in Procs :
    (Built(p) /\ Built(q) /\ calls[p].standards = calls[q].standards) =>
      /\ DOMAIN calls[p].RULES = DOMAIN calls[q].RULES
      /\ \A key \in DOMAIN calls[p].RULES : calls[p].RULES[key] = calls[q].RULES[key]

C7_Witness ==
  /\ Built("p") /\ calls["q"].pc = "returned"
  /\ calls["p"].standards = calls["q"].standards
  /\ calls["p"].standards.applyEfa
  /\ calls["p"].data # calls["q"].data

\* C8: no call changes the catalog tables, and every call has the rule table
\* and returns the result it has when it runs alone on the catalog as loaded.
C8_CallsIndependent ==
  /\ cat = Catalog
  /\ \A p \in Procs :
       /\ Built(p) =>
            calls[p].RULES = buildRules(ver, calls[p].standards, Catalog).rules
       /\ calls[p].pc = "returned" =>
            calls[p].result =
              validateDesignWithStandards(ver, calls[p].data, calls[p].standards,
                                          Catalog).result

C8_Witness ==
  /\ calls["p"].pc = "returned" /\ calls["q"].pc = "returned"
  /\ calls["p"].standards # calls["q"].standards
  /\ calls["p"].result.ok /\ ~calls["q"].result.ok

\* C10: without the cycle-focused standard the table has cycle_radfahr_min_m
\* >= 1.8, cycle_baulich_min_m >= 2.0 and cycle_schutz_min_m equal to
\* cycle_min_m; with it the three keys have the values of ERA_RULES.
C10_CycleKeys ==
  \A p \in Procs :
    Built(p) =>
      IF calls[p].standards.applyEra
      THEN /\ calls[p].RULES.cycle_schutz_min_m = ERA_RULES.cycle_schutz_min_m
           /\ calls[p].RULES.cycle_radfahr_min_m = ERA_RULES.cycle_radfahr_min_m
           /\ calls[p].RULES.cycle_baulich_min_m = ERA_RULES.cycle_baulich_min_m
      ELSE /\ calls[p].RULES.cycle_radfahr_min_m >= 180
           /\ calls[p].RULES.cycle_baulich_min_m >= 200
           /\ calls[p].RULES.cycle_schutz_min_m = calls[p].RULES.cycle_min_m

C10_Witness ==
  /\ Built("p") /\ Built("q")
  /\ ~calls["p"].standards.applyEra /\ calls["q"].standards.applyEra
  /\ ver = "legacy"

\* ------------------------------------------------------------------------
\* Properties of the width arithmetic of one submission (Spec)
\* ------------------------------------------------------------------------

\* the submission got past the mandatory-field check and a result came back
Checked == Returned /\ ~srv.result.short

\* the violations of the result whose kind is kind
OfKind(kind) ==
  LET RECURSIVE Pick(_)
      Pick(es) == IF es = << >> THEN << >>
                  ELSE IF Head(es).kind = kind THEN <<Head(es)>> \o Pick(Tail(es))
                  ELSE Pick(Tail(es))
  IN Pick(srv.result.errors)

\* C11: past the mandatory-field check a side has a sidewalk violation
\* exactly when its coerced width is strictly below sidewalk_min: none at
\* the minimum, one naming the side for every width below it, 0 included.
C11_SidewalkBelowMinIffViolation ==
  Checked =>
    /\ Len(OfKind("sidewalk_left")) =
         (IF InG.sidewalkLeftM < InRules.sidewalk_min_m THEN 1 ELSE 0)
    /\ Len(OfKind("sidewalk_right")) =
         (IF InG.sidewalkRightM < InRules.sidewalk_min_m THEN 1 ELSE 0)
    /\ \A i \in 1..Len(srv.result.errors) :
         LET e == srv.result.errors[i] IN
         /\ e.kind = "sidewalk_left" =>
              (e.x = InG.sidewalkLeftM /\ e.y = InRules.sidewalk_min_m
               /\ (ver = "tagged" => e.field = "gehwegLinks"))
         /\ e.kind = "sidewalk_right" =>
              (e.x = InG.sidewalkRightM /\ e.y = InRules.sidewalk_min_m
               /\ (ver = "tagged" => e.field = "gehwegRechts"))

\* C12: past the mandatory-field check the aggregate required width reported
\* is left + right sidewalk as submitted + cycle total + parking total
\* + lane count x lane_min, and there is exactly one aggregate-width
\* violation when it exceeds the total width and none otherwise.
C12_RequiredMinAsSubmitted ==
  Checked =>
    LET required == InG.sidewalkLeftM + InG.sidewalkRightM
                    + srv.result.summary.d.cycleTotalM
                    + srv.result.summary.d.parkingM
                    + InG.lanesCount * InRules.lane_min_m
    IN /\ srv.result.summary.d.requiredMin = required
       /\ Len(OfKind("required_min")) =
            (IF required > InG.totalWidthM THEN 1 ELSE 0)

\* the cycle total C13 states, from the typed inputs and the rule table
C13_Expected ==
  IF ~InG.cycleNeeded THEN 0
  ELSE (CASE InG.cycleType = "radfahrstreifen" -> InRules.cycle_radfahr_min_m
          [] InG.cycleType = "schutzstreifen" -> InRules.cycle_schutz_min_m
          [] OTHER -> InRules.cycle_baulich_min_m)
       * (IF InG.cycleSides = "beidseitig" THEN 2 ELSE 1)

\* C13: the cycle total is 0 when no cycle facility is requested; otherwise
\* it is the per-side width (marked, protected, or separated for every other
\* type) times 2 for two-sided and 1 for every other value.
C13_CycleTotal ==
  Checked => srv.result.summary.d.cycleTotalM = C13_Expected

C13_Witness ==
  /\ Checked
  /\ InG.cycleNeeded /\ InG.cycleType = "radfahrstreifen"
  /\ InG.cycleSides = "beidseitig"
  /\ srv.result.summary.d.cycleTotalM = 370

\* C14: the parking total is 0 when parking is not requested, the table
\* entry of the type when it is parallel, schraeg or quer, and 0 for an
\* empty or unrecognized type.
C14_ParkingTotal ==
  Checked =>
    srv.result.summary.d.parkingM =
      (IF ~InG.parkingNeeded THEN 0
       ELSE CASE InG.parkingType = "parallel" -> InRules.parking_parallel_min_m
              [] InG.parkingType = "schraeg" -> InRules.parking_schraeg_min_m
              [] InG.parkingType = "quer" -> InRules.parking_quer_min_m
              [] OTHER -> 0)

\* C15: past the mandatory-field check with a positive lane count the
\* aggregate-width violation is in the result exactly when the per-lane
\* violation is.
C15_AggregateIffPerLane ==
  (Checked /\ InG.lanesCount > 0) =>
    (Len(OfKind("required_min")) > 0 <=> Len(OfKind("lane_min")) > 0)

====
